---- MODULE Spec2Model ----
(***************************************************************************)
(* Model of the Japanese DTP name formatter (app.py, pattern5.py,          *)
(* pattern7.py).  A string is a sequence of one-character cells.  Kanji    *)
(* and kana are abstracted to the letters of Letters; the two blank        *)
(* characters the code distinguishes are kept apart:                       *)
(*   FW  the full-width blank U+3000 written "　" in the source,            *)
(*   SP  the ASCII space " " used by format_name for alignment padding.    *)
(* The option strings of the user interface are abbreviated:               *)
(*   "5字取り" -> "5",  "7字取り" -> "7"                                      *)
(*   "中央揃え" -> "center", "左揃え" -> "left", "右揃え" -> "right"           *)
(*   "通常" -> "normal", "空ける" -> "open", "詰める" -> "tight"               *)
(***************************************************************************)
EXTENDS Integers, Sequences, FiniteSets, TLC

VARIABLES
    rows,               \* the name column of df, in input order (raw cells)
    surname_list,       \* surname_list argument of process_name_list
    char_count_option,  \* "5" | "7"
    alignment_option,   \* "center" | "left" | "right"
    spacing_option,     \* "normal" | "open" | "tight"
    target_length,      \* target_length (process_name_list local / format_name parameter)
    i,                  \* number of rows the loop has visited
    formatted,          \* df[result_column], one cell per row
    errors,             \* the errors list
    full_name,          \* loop local full_name
    surname,            \* loop local surname / formatter parameter
    given_name,         \* loop local given_name / formatter parameter
    matched,            \* TRUE iff the prefix probe found a surname (surname is not None)
    spacing_char,       \* loop local spacing_char / format_name parameter
    formatted_name,     \* value returned by the formatter last applied
    pc                  \* position of the program

vars == <<rows, surname_list, char_count_option, alignment_option, spacing_option,
          target_length, i, formatted, errors, full_name, surname, given_name,
          matched, spacing_char, formatted_name, pc>>

----------------------------------------------------------------------------
(* Bounds of the model *)

MaxNameLen == 5
MaxSurLen == 4
MaxDict == 2
MaxTokLen == 6
MaxPadLen == 3
MaxWidth == 8
MaxRows == 2
MaxRowLen == 5

----------------------------------------------------------------------------
(* Characters and strings *)

Letters == {"a", "b"}
FW == "FW"
SP == "SP"
Whitespace == {FW, SP}

Str(n) == UNION {[1..k -> Letters] : k \in 0..n}

Min(x, y) == IF x < y THEN x ELSE y

\* s[:n]
Take(s, n) == SubSeq(s, 1, Min(n, Len(s)))

\* s[n:]
Drop(s, n) == SubSeq(s, Min(n, Len(s)) + 1, Len(s))

\* "　" * n
Fill(n) == [k \in 1..n |-> FW]

\* " " * n
Spaces(n) == [k \in 1..n |-> SP]

Range(s) == {s[k] : k \in 1..Len(s)}

RECURSIVE LStrip(_)
LStrip(s) == IF s = <<>> THEN s
             ELSE IF Head(s) \in Whitespace THEN LStrip(Tail(s)) ELSE s

RECURSIVE RStrip(_)
RStrip(s) == IF s = <<>> THEN s
             ELSE IF s[Len(s)] \in Whitespace THEN RStrip(SubSeq(s, 1, Len(s) - 1)) ELSE s

\* Strip left out: the cell is used as it is.
StripNothing(s) == s

\* str.strip(): leading and trailing whitespace removed (U+3000 is whitespace)
Strip(s) == RStrip(LStrip(s))

----------------------------------------------------------------------------
(* The tokenizer of process_name_list (app.py 184-197) *)

\* range(min(3, len(full_name)), 0, -1) starts at min(MaxProbe, len)
MaxProbe == 3

\* SurnameSet that misses the last entry of the list.
SurnameSetDropsLast(list) == {list[k] : k \in 1..(Len(list) - 1)}

\* surname_set = set(surname_list)
SurnameSet(list) == Range(list)

\* The for loop of lines 186-190, entered with the given length: the first
\* (longest) probed length whose prefix is in surname_set, 0 when the loop
\* runs out without a break (surname stays None).
RECURSIVE ProbePrefix(_, _, _)
ProbePrefix(name, surname_set, length) ==
    IF length = 0 THEN 0
    ELSE IF Take(name, length) \in surname_set THEN length
    ELSE ProbePrefix(name, surname_set, length - 1)

\* MidSplit with the given name starting one character too late
\* (full_name[mid + 1:]).
MidSplitDropsChar(name) ==
    LET mid == Len(name) \div 2
    IN  [surname |-> Take(name, mid), given_name |-> Drop(name, mid + 1), matched |-> FALSE]

\* Lines 194-196: the midpoint split of a name no probed prefix matched.
MidSplit(name) ==
    LET mid == Len(name) \div 2
    IN  [surname |-> Take(name, mid), given_name |-> Drop(name, mid), matched |-> FALSE]

\* Lines 184-197: the (surname, given_name) pair of a non-empty trimmed name.
Tokenize(name, surname_set) ==
    LET length == ProbePrefix(name, surname_set, Min(MaxProbe, Len(name)))
    IN  IF length > 0
        THEN [surname |-> Take(name, length), given_name |-> Drop(name, length),
              matched |-> TRUE]
        ELSE MidSplit(name)

----------------------------------------------------------------------------
(* pattern5.py: the width-5 rule *)

\* Rule5Guard with the first comparison written > instead of >=.
Rule5GuardSumOffByOne(surname_len, given_name_len) ==
    IF surname_len + given_name_len > 5 THEN TRUE
    ELSE IF surname_len >= 4 THEN TRUE
    ELSE given_name_len >= 4

\* Lines 26-36: the three guards that leave the name untouched.
Rule5Guard(surname_len, given_name_len) ==
    IF surname_len + given_name_len >= 5 THEN TRUE
    ELSE IF surname_len >= 4 THEN TRUE
    ELSE given_name_len >= 4

\* Rule5Table with the (2, 1) row given one filler instead of two.
Rule5TableShortFiller(s, g) ==
    LET surname_len == Len(s)
        given_name_len == Len(g)
    IN  IF given_name_len = 1 THEN
            IF surname_len = 1 THEN s \o Fill(3) \o g
            ELSE IF surname_len = 2 THEN s \o Fill(1) \o g
            ELSE IF surname_len = 3 THEN s \o Fill(1) \o g
            ELSE s \o g
        ELSE IF given_name_len = 2 THEN
            IF surname_len = 1 THEN s \o Fill(2) \o g
            ELSE IF surname_len = 2 THEN s \o Fill(1) \o g
            ELSE s \o g
        ELSE IF given_name_len = 3 THEN
            IF surname_len = 1 THEN s \o Fill(1) \o g
            ELSE IF surname_len = 2 THEN s \o Fill(1) \o g
            ELSE IF surname_len = 3 THEN <<s[1]>> \o Fill(1) \o g
            ELSE s \o g
        ELSE s \o g

\* Lines 38-71: the branches on the two lengths.
Rule5Table(s, g) ==
    LET surname_len == Len(s)
        given_name_len == Len(g)
    IN  IF given_name_len = 1 THEN
            IF surname_len = 1 THEN s \o Fill(3) \o g
            ELSE IF surname_len = 2 THEN s \o Fill(2) \o g
            ELSE IF surname_len = 3 THEN s \o Fill(1) \o g
            ELSE s \o g
        ELSE IF given_name_len = 2 THEN
            IF surname_len = 1 THEN s \o Fill(2) \o g
            ELSE IF surname_len = 2 THEN s \o Fill(1) \o g
            ELSE s \o g
        ELSE IF given_name_len = 3 THEN
            IF surname_len = 1 THEN s \o Fill(1) \o g
            ELSE IF surname_len = 2 THEN s \o Fill(1) \o g
            ELSE IF surname_len = 3 THEN <<s[1]>> \o Fill(1) \o g
            ELSE s \o g
        ELSE s \o g

\* Lines 7-71
format_name_5chars_rule(s, g) ==
    IF Rule5Guard(Len(s), Len(g)) THEN s \o g ELSE Rule5Table(s, g)

----------------------------------------------------------------------------
(* pattern7.py: the width-7 rule *)

\* The rule of pattern7.py with the (2, 3) row laid out as surname, one
\* filler, given name.
Pattern7PairJoined(s, g) ==
    LET surname_len == Len(s)
        given_name_len == Len(g)
    IN  IF s = <<>> \/ g = <<>> THEN s \o g
        ELSE IF given_name_len >= 6 THEN s \o g
        ELSE IF given_name_len = 5 THEN
            IF surname_len = 1 THEN s \o Fill(1) \o g
            ELSE s \o g
        ELSE IF given_name_len = 4 THEN
            IF surname_len = 1 THEN s \o Fill(2) \o g
            ELSE IF surname_len = 2 THEN s \o Fill(1) \o g
            ELSE s \o g
        ELSE IF given_name_len = 3 THEN
            IF surname_len = 1 THEN s \o Fill(3) \o g
            ELSE IF surname_len = 2 THEN s \o Fill(1) \o g
            ELSE IF surname_len = 3 THEN s \o Fill(1) \o g
            ELSE s \o g
        ELSE IF given_name_len = 2 THEN
            IF surname_len = 1 THEN s \o Fill(3) \o <<g[1], FW, g[2]>>
            ELSE IF surname_len = 2 THEN <<s[1], FW, s[2], FW, g[1], FW, g[2]>>
            ELSE IF surname_len = 3 THEN s \o <<FW, g[1], FW, g[2]>>
            ELSE IF surname_len = 4 THEN s \o Fill(1) \o g
            ELSE s \o g
        ELSE IF given_name_len = 1 THEN
            IF surname_len = 1 THEN s \o Fill(5) \o g
            ELSE IF surname_len = 2 THEN <<s[1], FW, s[2]>> \o Fill(3) \o g
            ELSE IF surname_len = 3 THEN s \o Fill(3) \o g
            ELSE IF surname_len = 4 THEN s \o Fill(2) \o g
            ELSE IF surname_len = 5 THEN s \o Fill(1) \o g
            ELSE s \o g
        ELSE s \o g

\* pattern7.py 8-94
pattern7_format_name_7chars_rule(s, g) ==
    LET surname_len == Len(s)
        given_name_len == Len(g)
    IN  IF s = <<>> \/ g = <<>> THEN s \o g
        ELSE IF given_name_len >= 6 THEN s \o g
        ELSE IF given_name_len = 5 THEN
            IF surname_len = 1 THEN s \o Fill(1) \o g
            ELSE s \o g
        ELSE IF given_name_len = 4 THEN
            IF surname_len = 1 THEN s \o Fill(2) \o g
            ELSE IF surname_len = 2 THEN s \o Fill(1) \o g
            ELSE s \o g
        ELSE IF given_name_len = 3 THEN
            IF surname_len = 1 THEN s \o Fill(3) \o g
            ELSE IF surname_len = 2 THEN <<s[1], FW, s[2], FW>> \o g
            ELSE IF surname_len = 3 THEN s \o Fill(1) \o g
            ELSE s \o g
        ELSE IF given_name_len = 2 THEN
            IF surname_len = 1 THEN s \o Fill(3) \o <<g[1], FW, g[2]>>
            ELSE IF surname_len = 2 THEN <<s[1], FW, s[2], FW, g[1], FW, g[2]>>
            ELSE IF surname_len = 3 THEN s \o <<FW, g[1], FW, g[2]>>
            ELSE IF surname_len = 4 THEN s \o Fill(1) \o g
            ELSE s \o g
        ELSE IF given_name_len = 1 THEN
            IF surname_len = 1 THEN s \o Fill(5) \o g
            ELSE IF surname_len = 2 THEN <<s[1], FW, s[2]>> \o Fill(3) \o g
            ELSE IF surname_len = 3 THEN s \o Fill(3) \o g
            ELSE IF surname_len = 4 THEN s \o Fill(2) \o g
            ELSE IF surname_len = 5 THEN s \o Fill(1) \o g
            ELSE s \o g
        ELSE s \o g

----------------------------------------------------------------------------
(* app.py: the width-7 rule that format_name calls, and format_name *)

\* app.py 277-356.  An empty token reaches the indexing expressions only in
\* branches guarded by a length of 1 or more, so no IndexError arises.
format_name_7chars_rule(s, g) ==
    LET surname_len == Len(s)
        given_name_len == Len(g)
    IN  IF given_name_len >= 6 THEN s \o g
        ELSE IF given_name_len = 5 THEN
            IF surname_len = 1 THEN s \o Fill(1) \o g
            ELSE s \o g
        ELSE IF given_name_len = 4 THEN
            IF surname_len = 1 THEN s \o Fill(2) \o g
            ELSE IF surname_len = 2 THEN s \o Fill(1) \o g
            ELSE s \o g
        ELSE IF given_name_len = 3 THEN
            IF surname_len = 1 THEN s \o Fill(3) \o g
            ELSE IF surname_len = 2 THEN s \o Fill(1) \o g
            ELSE IF surname_len = 3 THEN s \o Fill(1) \o g
            ELSE s \o g
        ELSE IF given_name_len = 2 THEN
            IF surname_len = 1 THEN s \o Fill(3) \o <<g[1], FW, g[2]>>
            ELSE IF surname_len = 2 THEN <<s[1], FW, s[2], FW, g[1], FW, g[2]>>
            ELSE IF surname_len = 3 THEN s \o <<FW, g[1], FW, g[2]>>
            ELSE IF surname_len = 4 THEN s \o Fill(1) \o g
            ELSE s \o g
        ELSE IF given_name_len = 1 THEN
            IF surname_len = 1 THEN s \o Fill(5) \o g
            ELSE IF surname_len = 2 THEN <<s[1], FW, s[2]>> \o Fill(3) \o g
            ELSE IF surname_len = 3 THEN s \o Fill(3) \o g
            ELSE IF surname_len = 4 THEN s \o Fill(2) \o g
            ELSE IF surname_len = 5 THEN s \o Fill(1) \o g
            ELSE s \o g
        ELSE s \o g

\* LeftPadding rounding up instead of down.
LeftPaddingCeil(padding) == (padding + 1) \div 2

\* Line 259
LeftPadding(padding) == padding \div 2

\* GenericPad without the cut of a name longer than the target.
GenericPadNoTruncate(s, g, target, alignment, spacing) ==
    LET name == s \o spacing \o g
        current_length == Len(name)
        padding == target - current_length
        left_padding == padding \div 2
        right_padding == padding - left_padding
    IN  IF current_length < target THEN
            IF alignment = "center" THEN Spaces(left_padding) \o name \o Spaces(right_padding)
            ELSE IF alignment = "left" THEN name \o Spaces(padding)
            ELSE Spaces(padding) \o name
        ELSE name

\* app.py 247-275: the alignment padder (the part of format_name after the
\* width-7 branch).
GenericPad(s, g, target, alignment, spacing) ==
    LET name == s \o spacing \o g
        current_length == Len(name)
        padding == target - current_length
        left_padding == LeftPadding(padding)
        right_padding == padding - left_padding
    IN  IF current_length < target THEN
            IF alignment = "center" THEN Spaces(left_padding) \o name \o Spaces(right_padding)
            ELSE IF alignment = "left" THEN name \o Spaces(padding)
            ELSE Spaces(padding) \o name
        ELSE IF current_length = target THEN name
        ELSE Take(name, target)

\* app.py 221-275
format_name(s, g, target, alignment, spacing) ==
    IF target = 7 /\ spacing = <<FW>> THEN format_name_7chars_rule(s, g)
    ELSE GenericPad(s, g, target, alignment, spacing)

----------------------------------------------------------------------------
(* Inputs *)

Alignments == {"center", "left", "right"}
CharCounts == {"5", "7"}
Spacings == {"normal", "open", "tight"}

\* Sequences over S of length at most n
SeqUpTo(S, n) == UNION {[1..k -> S] : k \in 0..n}

\* The alternating name of length k: a, ab, aba, abab, ...
Alt(k) == [n \in 1..k |-> IF n % 2 = 1 THEN "a" ELSE "b"]

\* Surnames a dictionary is drawn from: the names of 1..MaxSurLen letters in
\* which no letter repeats its predecessor (a, b, ab, ba, aba, bab, ...).
SurnamePool == {s \in Str(MaxSurLen) : Len(s) >= 1 /\ \A k \in 2..Len(s) : s[k] # s[k - 1]}

\* Surname lists of the tokenizer specification: order and duplicates kept.
SurnameLists == SeqUpTo(SurnamePool, MaxDict)

\* Full names of the tokenizer specification: non-empty and trimmed.
Names == Str(MaxNameLen) \ {<<>>}

\* Raw cells of the name column in the batch specification: empty, blank,
\* a name wrapped in blanks, and the alternating names.
RowPool == {<<>>, <<SP>>, <<SP, "a", "b", FW>>} \cup {Alt(k) : k \in 1..MaxRowLen}

\* Surname lists of the batch specification.
BatchSurnameLists ==
    {<<>>, <<Alt(1), Alt(MaxSurLen)>>} \cup {<<Alt(k)>> : k \in 1..MaxSurLen}

----------------------------------------------------------------------------
(* The tokenizer alone: one full name against one surname list *)

InitTok ==
    /\ rows = <<>>
    /\ surname_list \in SurnameLists
    /\ char_count_option = "5"
    /\ alignment_option = "center"
    /\ spacing_option = "normal"
    /\ target_length = 5
    /\ i = 0
    /\ formatted = <<>>
    /\ errors = <<>>
    /\ full_name \in Names
    /\ surname = <<>>
    /\ given_name = <<>>
    /\ matched = FALSE
    /\ spacing_char = <<>>
    /\ formatted_name = <<>>
    /\ pc = "tokenize"

\* Lines 184-197 applied to full_name
SplitName ==
    /\ pc = "tokenize"
    /\ LET t == Tokenize(full_name, SurnameSet(surname_list))
       IN  /\ surname' = t.surname
           /\ given_name' = t.given_name
           /\ matched' = t.matched
    /\ pc' = "split"
    /\ UNCHANGED <<rows, surname_list, char_count_option, alignment_option,
                   spacing_option, target_length, i, formatted, errors, full_name,
                   spacing_char, formatted_name>>

NextTok == SplitName

SpecTok == InitTok /\ [][NextTok]_vars

----------------------------------------------------------------------------
(* The rule tables alone: one surname and one given name *)

InitFmt ==
    /\ rows = <<>>
    /\ surname_list = <<>>
    /\ char_count_option = "5"
    /\ alignment_option = "center"
    /\ spacing_option = "normal"
    /\ target_length = 5
    /\ i = 0
    /\ formatted = <<>>
    /\ errors = <<>>
    /\ full_name = <<>>
    /\ surname \in Str(MaxTokLen)
    /\ given_name \in Str(MaxTokLen)
    /\ matched = FALSE
    /\ spacing_char = <<>>
    /\ formatted_name = <<>>
    /\ pc = "format"

FmtUnchanged ==
    UNCHANGED <<rows, surname_list, char_count_option, alignment_option,
                spacing_option, target_length, i, formatted, errors, full_name,
                surname, given_name, matched, spacing_char>>

\* pattern5.format_name_5chars_rule(surname, given_name)
Format5 ==
    /\ pc = "format"
    /\ formatted_name' = format_name_5chars_rule(surname, given_name)
    /\ pc' = "pattern5"
    /\ FmtUnchanged

\* pattern7.format_name_7chars_rule(surname, given_name)
Format7 ==
    /\ pc = "format"
    /\ formatted_name' = pattern7_format_name_7chars_rule(surname, given_name)
    /\ pc' = "pattern7"
    /\ FmtUnchanged

\* app.format_name_7chars_rule(surname, given_name)
Format7App ==
    /\ pc = "format"
    /\ formatted_name' = format_name_7chars_rule(surname, given_name)
    /\ pc' = "app7"
    /\ FmtUnchanged

NextFmt == Format5 \/ Format7 \/ Format7App

SpecFmt == InitFmt /\ [][NextFmt]_vars

----------------------------------------------------------------------------
(* format_name alone *)

InitName ==
    /\ rows = <<>>
    /\ surname_list = <<>>
    /\ char_count_option = "5"
    /\ alignment_option \in Alignments
    /\ spacing_option = "normal"
    /\ target_length \in 0..MaxWidth
    /\ i = 0
    /\ formatted = <<>>
    /\ errors = <<>>
    /\ full_name = <<>>
    /\ surname \in Str(MaxPadLen)
    /\ given_name \in Str(MaxPadLen)
    /\ matched = FALSE
    /\ spacing_char \in {<<>>, <<FW>>}
    /\ formatted_name = <<>>
    /\ pc = "format"

\* format_name(surname, given_name, target_length, alignment, spacing_char)
FormatName ==
    /\ pc = "format"
    /\ formatted_name' =
           format_name(surname, given_name, target_length, alignment_option, spacing_char)
    /\ pc' = "format_name"
    /\ FmtUnchanged

NextName == FormatName

SpecName == InitName /\ [][NextName]_vars

----------------------------------------------------------------------------
(* process_name_list (app.py 111-219), from the point where the name column  *)
(* has been identified (line 153): the loop over the rows of the column.     *)

\* Lines 157-160
TargetLength(option) == IF option = "5" THEN 5 ELSE 7

\* Lines 200-204
SpacingChar(option) == IF option = "open" THEN <<FW>> ELSE <<>>

\* EmptyError that always names the first row.
EmptyErrorFirstRow(k) == [row |-> 1, kind |-> "empty"]

\* Line 181: the message of an empty name carries the row number only.
EmptyError(k) == [row |-> k, kind |-> "empty"]

\* Line 197: the message of an automatic split carries the row number, the
\* name and the two tokens.
AutoSplitError(k, name, t) ==
    [row |-> k, kind |-> "autosplit", full_name |-> name,
     surname |-> t.surname, given_name |-> t.given_name]

Init ==
    /\ rows \in SeqUpTo(RowPool, MaxRows)
    /\ surname_list \in BatchSurnameLists
    /\ char_count_option \in CharCounts
    /\ alignment_option \in Alignments
    /\ spacing_option \in Spacings
    /\ target_length = TargetLength(char_count_option)
    /\ i = 0
    /\ formatted = [k \in 1..Len(rows) |-> <<>>]
    /\ errors = <<>>
    /\ full_name = <<>>
    /\ surname = <<>>
    /\ given_name = <<>>
    /\ matched = FALSE
    /\ spacing_char = <<>>
    /\ formatted_name = <<>>
    /\ pc = "loop"

\* One iteration of the loop of lines 171-213, on row i + 1.
ProcessRow ==
    /\ pc = "loop"
    /\ i < Len(rows)
    /\ LET k == i + 1
           name == Strip(rows[k])
           t == Tokenize(name, SurnameSet(surname_list))
           sp == SpacingChar(spacing_option)
           f == format_name(t.surname, t.given_name, target_length, alignment_option, sp)
       IN  /\ i' = k
           /\ full_name' = name
           /\ IF name = <<>>
              THEN /\ errors' = Append(errors, EmptyError(k))
                   /\ UNCHANGED <<formatted, surname, given_name, matched,
                                  spacing_char, formatted_name>>
              ELSE /\ surname' = t.surname
                   /\ given_name' = t.given_name
                   /\ matched' = t.matched
                   /\ errors' = IF t.matched THEN errors
                                ELSE Append(errors, AutoSplitError(k, name, t))
                   /\ spacing_char' = sp
                   /\ formatted_name' = f
                   /\ formatted' = [formatted EXCEPT ![k] = f]
    /\ UNCHANGED <<rows, surname_list, char_count_option, alignment_option,
                   spacing_option, target_length, pc>>

\* Lines 215-219: the loop is over, (df, errors) is returned.
Return ==
    /\ pc = "loop"
    /\ i = Len(rows)
    /\ pc' = "done"
    /\ UNCHANGED <<rows, surname_list, char_count_option, alignment_option,
                   spacing_option, target_length, i, formatted, errors, full_name,
                   surname, given_name, matched, spacing_char, formatted_name>>

Next == ProcessRow \/ Return

Spec == Init /\ [][Next]_vars

----------------------------------------------------------------------------
(* Claims *)

IsPrefix(e, name) == Len(e) <= Len(name) /\ SubSeq(name, 1, Len(e)) = e

\* The entries of the surname list that are a prefix of the name
Candidates(name) == {e \in SurnameSet(surname_list) : IsPrefix(e, name)}

\* C1: once the tokenizer has split a non-empty trimmed full name, on the
\* dictionary path or on the midpoint path, surname followed by given name
\* is the full name.
C1_Reconstruction ==
    pc = "split" => surname \o given_name = full_name

\* Witness of C1: a name of five characters no surname matched, split 2 + 3.
C1_Witness ==
    /\ pc = "split"
    /\ ~matched
    /\ Len(full_name) = 5
    /\ Len(surname) = 2
    /\ Len(given_name) = 3

\* C2: the surname the tokenizer returns is the longest entry of the
\* dictionary that is a prefix of the full name, whatever its length, and
\* the given name is the rest.
C2_LongestMatch ==
    (pc = "split" /\ Candidates(full_name) # {}) =>
        \E e \in Candidates(full_name) :
            /\ \A d \in Candidates(full_name) : Len(d) <= Len(e)
            /\ surname = e
            /\ given_name = Drop(full_name, Len(e))

\* The diagnostics recorded for row k
DiagsOf(k) == {n \in 1..Len(errors) : errors[n].row = k}

\* C3: every visited non-blank row whose name starts with no dictionary
\* surname is split at floor(len / 2), kept in the output and has exactly
\* one diagnostic; every visited row whose name starts with a dictionary
\* surname has no diagnostic.
C3_NoMatchFallback ==
    \A k \in 1..i :
        LET name == Strip(rows[k])
        IN  name # <<>> =>
                IF Candidates(name) # {}
                THEN DiagsOf(k) = {}
                ELSE /\ Cardinality(DiagsOf(k)) = 1
                     /\ formatted[k] # <<>>
                     /\ \A n \in DiagsOf(k) :
                            /\ errors[n].surname = Take(name, Len(name) \div 2)
                            /\ errors[n].given_name = Drop(name, Len(name) \div 2)

\* The region of the width-5 table the claim C4 names
Width5Region(sl, gl) ==
    /\ sl + gl < 5
    /\ sl < 4
    /\ gl < 4
    /\ ~(sl = 3 /\ gl = 3)

\* The token pairs the tokenizer can produce: one of the two may be empty
\* (a one-character name split at the midpoint, a name that is a surname),
\* never both.
Producible(s, g) == Len(s) + Len(g) >= 1

\* C4 as stated: in the region, for tokens of any length the tokenizer can
\* produce (an empty token included), the width-5 rule returns surname,
\* 5 - len(surname) - len(given) fillers, given name: five characters.
C4_Original ==
    (/\ pc = "pattern5"
     /\ Producible(surname, given_name)
     /\ Width5Region(Len(surname), Len(given_name))) =>
        /\ formatted_name = surname \o Fill(5 - Len(surname) - Len(given_name)) \o given_name
        /\ Len(formatted_name) = 5

\* C4 amended: the same for two non-empty tokens.
C4_Width5Exact ==
    (/\ pc = "pattern5"
     /\ Width5Region(Len(surname), Len(given_name))
     /\ Len(surname) >= 1
     /\ Len(given_name) >= 1) =>
        /\ formatted_name = surname \o Fill(5 - Len(surname) - Len(given_name)) \o given_name
        /\ Len(formatted_name) = 5

\* Witness of C4: a surname of two characters and a given name of one,
\* laid out with two fillers.
C4_Witness ==
    /\ pc = "pattern5"
    /\ Len(surname) = 2
    /\ Len(given_name) = 1
    /\ formatted_name = surname \o <<FW, FW>> \o given_name

\* The entries of the width-7 table that are a filler layout
Table7Filler(sl, gl) ==
    \/ gl = 5 /\ sl = 1
    \/ gl = 4 /\ sl \in 1..2
    \/ gl = 3 /\ sl \in 1..3
    \/ gl = 2 /\ sl \in 1..4
    \/ gl = 1 /\ sl \in 1..5

\* C5: where the width-7 table of pattern7.py applies (given name shorter
\* than 6, entry a filler layout), the result has exactly 7 characters.
C5_Width7Exact ==
    (/\ pc = "pattern7"
     /\ Len(given_name) < 6
     /\ Table7Filler(Len(surname), Len(given_name))) =>
        Len(formatted_name) = 7

\* Witness of C5: a surname of two characters and a given name of three,
\* laid out s[0], filler, s[1], filler, given name.
C5_Witness ==
    /\ pc = "pattern7"
    /\ Len(surname) = 2
    /\ Len(given_name) = 3
    /\ formatted_name = <<surname[1], FW, surname[2], FW>> \o given_name

\* C6: for a surname of two characters and a given name of three, the
\* width-5 rule returns surname, one filler, given name.
C6_QuirkRow ==
    (pc = "pattern5" /\ Len(surname) = 2 /\ Len(given_name) = 3) =>
        formatted_name = surname \o <<FW>> \o given_name

\* C7: for a surname of three characters and a given name of three, the
\* width-5 rule returns the first character of the surname, one filler and
\* the given name.
C7_ThreeThree ==
    (pc = "pattern5" /\ Len(surname) = 3 /\ Len(given_name) = 3) =>
        formatted_name = <<surname[1], FW>> \o given_name

\* C8: outside the guarded regions (width 5: total of 5 or more, or a token
\* of 4 or more; width 7: given name of 6 or more) the rules of pattern5.py
\* and pattern7.py return surname followed by given name, no filler.
C8_ConcatFallback ==
    /\ (/\ pc = "pattern5"
        /\ \/ Len(surname) + Len(given_name) >= 5
           \/ Len(surname) >= 4
           \/ Len(given_name) >= 4) =>
            formatted_name = surname \o given_name
    /\ (pc = "pattern7" /\ Len(given_name) >= 6) =>
            formatted_name = surname \o given_name

\* Witness of C8: the width-5 rule applied to a surname of two characters
\* and a given name of three has returned the five characters unchanged.
C8_Witness ==
    /\ pc = "pattern5"
    /\ Len(surname) = 2
    /\ Len(given_name) = 3
    /\ formatted_name = surname \o given_name

\* C9: the formatted string of the non-blank row just visited is the
\* width-5 rule table applied to its tokens when the target width is 5 and
\* the width-7 rule table when it is 7.
C9_RuleTableSelection ==
    (i >= 1 /\ Strip(rows[i]) # <<>>) =>
        formatted[i] = IF target_length = 5
                       THEN format_name_5chars_rule(surname, given_name)
                       ELSE pattern7_format_name_7chars_rule(surname, given_name)

\* What C10 says format_name returns when pad cells are missing
Aligned(base, pad, alignment) ==
    IF alignment = "center" THEN Spaces(pad \div 2) \o base \o Spaces(pad - pad \div 2)
    ELSE IF alignment = "left" THEN base \o Spaces(pad)
    ELSE Spaces(pad) \o base

\* C10 as stated: whenever base = surname + joinFiller + given (of tokens
\* the tokenizer can produce) is shorter than the target width, format_name
\* returns base padded as the alignment says.
C10_Original ==
    LET base == surname \o spacing_char \o given_name
        pad == target_length - Len(base)
    IN  (pc = "format_name" /\ Producible(surname, given_name) /\ pad > 0) =>
            formatted_name = Aligned(base, pad, alignment_option)

\* C10 amended: the same, except when the target width is 7 and the
\* joinFiller is the full-width blank, where format_name returns the
\* width-7 rule's layout instead.
C10_GenericPadAlignment ==
    LET base == surname \o spacing_char \o given_name
        pad == target_length - Len(base)
    IN  (/\ pc = "format_name"
         /\ Producible(surname, given_name)
         /\ pad > 0
         /\ ~(target_length = 7 /\ spacing_char = <<FW>>)) =>
            formatted_name = Aligned(base, pad, alignment_option)

\* Witness of C10: a base of two characters centred in five cells, one
\* padding cell before it and two after.
C10_Witness ==
    /\ pc = "format_name"
    /\ alignment_option = "center"
    /\ target_length = 5
    /\ Len(surname) = 1
    /\ Len(given_name) = 1
    /\ spacing_char = <<>>
    /\ formatted_name = <<SP>> \o surname \o given_name \o <<SP, SP>>

\* format_name takes the padder path: not target 7 with the full-width blank
GenericPath == ~(target_length = 7 /\ spacing_char = <<FW>>)

\* C11: on the padder path, for every surname, given name, joinFiller,
\* alignment and target width >= 0, the returned string has exactly
\* target-width characters; it is base when base has that length and the
\* first target-width characters of base when base is longer.
C11_GenericWidth ==
    LET base == surname \o spacing_char \o given_name
    IN  (pc = "format_name" /\ GenericPath) =>
            /\ Len(formatted_name) = target_length
            /\ Len(base) = target_length => formatted_name = base
            /\ Len(base) > target_length => formatted_name = SubSeq(base, 1, target_length)

\* Witness of C11: a base of five characters (two, the full-width blank,
\* two) cut to a target width of three.
C11_Witness ==
    /\ pc = "format_name"
    /\ Len(surname) = 2
    /\ Len(given_name) = 2
    /\ spacing_char = <<FW>>
    /\ target_length = 3
    /\ formatted_name = surname \o <<FW>>

\* C12: whenever the padder cut the base of the non-blank row just visited
\* (base longer than the target width), a diagnostic is recorded for that
\* row.
C12_TruncationReported ==
    (/\ i >= 1
     /\ Strip(rows[i]) # <<>>
     /\ GenericPath
     /\ Len(surname \o spacing_char \o given_name) > target_length) =>
        DiagsOf(i) # {}

\* A cell that is empty or holds blanks only
IsBlank(cell) == \A k \in 1..Len(cell) : cell[k] \in Whitespace

\* C13 as stated: a visited row whose cell is empty or blank has no
\* formatted entry and no diagnostic.
C13_Original ==
    \A k \in 1..i :
        IsBlank(rows[k]) => (formatted[k] = <<>> /\ DiagsOf(k) = {})

\* C13 amended: a visited row whose cell is empty or blank has no formatted
\* entry and exactly one diagnostic, the one saying its name is empty.
C13_BlankRowReported ==
    \A k \in 1..i :
        IsBlank(rows[k]) =>
            /\ formatted[k] = <<>>
            /\ Cardinality(DiagsOf(k)) = 1
            /\ \A n \in DiagsOf(k) : errors[n].kind = "empty"

\* Witness of C13: the batch of an empty cell followed by a name that starts
\* with a dictionary surname has returned with one diagnostic, for row 1.
C13_Witness ==
    /\ pc = "done"
    /\ Len(rows) = 2
    /\ rows[1] = <<>>
    /\ rows[2] = <<"a", "b", "a", "b">>
    /\ surname_list = <<<<"a", "b">>>>
    /\ formatted[2] # <<>>
    /\ Len(errors) = 1
    /\ errors[1].row = 1

\* The result cell of row k once the loop has visited it
ExpectedCell(k) ==
    LET name == Strip(rows[k])
        t == Tokenize(name, SurnameSet(surname_list))
    IN  IF name = <<>> THEN <<>>
        ELSE format_name(t.surname, t.given_name, target_length, alignment_option,
                         SpacingChar(spacing_option))

\* C14: no row ends the batch early (the loop is either running or has
\* returned, and it has returned only after visiting all rows, blank and
\* unmatched ones included); the rows are visited once each in input order
\* (rows 1..i hold their result at their own position, the rows after i are
\* untouched); the diagnostics name visited rows in strictly increasing
\* order.
C14_IsolationAndOrder ==
    /\ i \in 0..Len(rows)
    /\ pc \in {"loop", "done"}
    /\ pc = "done" => i = Len(rows)
    /\ \A k \in 1..Len(rows) :
           formatted[k] = IF k <= i THEN ExpectedCell(k) ELSE <<>>
    /\ \A n \in 1..Len(errors) : errors[n].row \in 1..i
    /\ \A m, n \in 1..Len(errors) : m < n => errors[m].row < errors[n].row

\* Witness of C14: a batch of a blank row followed by a name with no
\* surname match has returned: two diagnostics, the second row formatted.
C14_Witness ==
    /\ pc = "done"
    /\ Len(rows) = 2
    /\ IsBlank(rows[1])
    /\ ~IsBlank(rows[2])
    /\ Candidates(Strip(rows[2])) = {}
    /\ Len(errors) = 2
    /\ errors[2].kind = "autosplit"
    /\ formatted[1] = <<>>
    /\ formatted[2] # <<>>

\* C15: app.py's copy of the width-7 rule returns what pattern7.py's
\* returns, for every surname and given name, empty tokens included.
C15_CopiesAgree ==
    pc = "app7" =>
        formatted_name = pattern7_format_name_7chars_rule(surname, given_name)

\* The surname lists of at most MaxDict entries holding the same set of
\* strings as the list
SameSetLists(list) == {l \in SeqUpTo(Range(list), MaxDict) : Range(l) = Range(list)}

\* C16: the split of the full name is the split under every surname list
\* that holds the same set of strings, in any order and with any
\* duplicates.
C16_OrderIndependence ==
    pc = "split" =>
        \A l \in SameSetLists(surname_list) :
            LET t == Tokenize(full_name, SurnameSet(l))
            IN  t.surname = surname /\ t.given_name = given_name

\* Witness of C16: a list of a one-character surname followed by a
\* two-character one, both a prefix of the name; the longer one is taken.
C16_Witness ==
    /\ pc = "split"
    /\ Len(surname_list) = 2
    /\ Len(surname_list[1]) = 1
    /\ Len(surname_list[2]) = 2
    /\ IsPrefix(surname_list[1], full_name)
    /\ IsPrefix(surname_list[2], full_name)
    /\ matched
    /\ surname = surname_list[2]

====
